---- MODULE Spec2Model ----
(***************************************************************************)
(* Model of the Graphs endpoint of graphspace_python                       *)
(* (graphspace_python/api/endpoint/graphs.py).                             *)
(*                                                                         *)
(* Every method of the class Graphs is an operator that is computed as the *)
(* Python code computes it: it yields the sequence of transport calls the  *)
(* method issues through client._make_request and the way the method ends  *)
(* (a returned value or a raised exception).  The remote service is the    *)
(* variable backend: the answer it gives to a lookup on the collection     *)
(* path, to a request on an individual-resource path and to a DELETE.      *)
(*                                                                         *)
(* Python values: an optional value is a sequence of length at most one    *)
(* (None is <<>>), a dict is a function with a domain of strings, a str    *)
(* built by concatenation or %-formatting is the sequence of its pieces.   *)
(***************************************************************************)
EXTENDS Integers, Sequences, FiniteSets, TLC

VARIABLES username, backend, pc, op, args, calls, outcome

vars == <<username, backend, pc, op, args, calls, outcome>>

(* ------------------------------ bounds -------------------------------- *)
MaxId == 1
MaxLen == 2
MaxTotal == 2
MaxLimit == 2
MaxOffset == 1

(* --------------------------- Python values ---------------------------- *)
None == <<>>

Some(x) == <<x>>

Get(d, k, default) == IF k \in DOMAIN d THEN d[k] ELSE default

DictUpdate(d, e) == e @@ d

Digits == <<"0", "1", "2", "3", "4", "5", "6", "7", "8", "9">>

RECURSIVE Str(_)
Str(i) == IF i < 10 THEN <<Digits[i + 1]>>
          ELSE Str(i \div 10) \o <<Digits[(i % 10) + 1]>>

(* ------------------------- external collaborators --------------------- *)
GRAPHS_PATH == <<"/graphs/">>

Graph(j) == [class |-> "Graph",
             id |-> IF "id" \in DOMAIN j THEN Some(j["id"]) ELSE None,
             json |-> j]

json(g) == g.json

\* APIResponse('graph', r).graph: the single entity of the envelope r.  The
\* entity sits under the key "graph"; get_graph also hands the unwrapper a
\* bare element of a "graphs" list, which is then the entity itself.
APIResponse_graph(r) == Graph(IF "graph" \in DOMAIN r THEN r["graph"] ELSE r)

\* APIResponse('graph', r).graphs: the entities of the collection envelope r.
APIResponse_graphs(r) ==
    LET l == Get(r, "graphs", <<>>) IN [i \in 1..Len(l) |-> Graph(l[i])]

(* ------------------------------ domains ------------------------------- *)
Ids == 0..MaxId

Names == {"g1", "g2"}

Emails == {"user1@example.com", "user2@example.com"}

Opt(S) == {None} \cup {Some(x) : x \in S}

Errors == {"E404", "E500"}

ServiceEntities == {[id |-> i, name |-> "g1"] : i \in Ids} \cup {[name |-> "g1"]}

EntityLists == UNION {[1..n -> ServiceEntities] : n \in 0..MaxLen}

Ok(body) == [error |-> None, body |-> Some(body)]

Failed(e) == [error |-> Some(e), body |-> None]

ListResponses ==
    {Ok([graphs |-> l]) : l \in EntityLists}
    \cup {Ok([graphs |-> l, total |-> t]) : l \in EntityLists, t \in 0..MaxTotal}
    \cup {Failed(e) : e \in Errors}

ItemResponses ==
    {Ok([graph |-> e]) : e \in ServiceEntities} \cup {Failed(e) : e \in Errors}

DeleteResponses ==
    {Ok([message |-> "Successfully deleted graph"])} \cup {Failed(e) : e \in Errors}

\* The service reports at least as many matches as it returns entities.
WellFormed(r) ==
    r.body # None /\ "total" \in DOMAIN r.body[1]
        => r.body[1]["total"] >= Len(r.body[1]["graphs"])

GraphArgs == {Graph([is_public |-> 0]), Graph([is_public |-> 1]),
              Graph([name |-> "g2", is_public |-> 0])}

TagArgs == {None, Some(<<"%xyz%">>)}

(* ------------------------------ transport ----------------------------- *)
Request(method, path, data, url_params) ==
    [method |-> method, path |-> path, data |-> data, url_params |-> url_params]

\* client._make_request(method, path, data, url_params): the answer of the
\* service, a decoded JSON body or a GraphSpaceError.
make_request(req) ==
    IF req.method = "DELETE" THEN backend.delete
    ELSE IF req.method = "GET" /\ req.path = GRAPHS_PATH THEN backend.list
    ELSE backend.item

(* ------------------------------ outcomes ------------------------------ *)
Return(c, v) == [calls |-> c, kind |-> "return", value |-> v]

Raise(c, e) == [calls |-> c, kind |-> "raise", value |-> e]

GraphSpaceError(resp) == [type |-> "GraphSpaceError", args |-> resp.error]

InvalidArgument == [type |-> "Exception",
                    args |-> <<"Both graph_id and name can't be none!">>]

\* The back quotes around the two substituted values are left out of the pieces.
NotFound(name) == [type |-> "Exception",
                   args |-> <<"Graph with name ", name,
                              " doesnt exist for user ", username, "!">>]

IndexError == [type |-> "IndexError", args |-> <<"list index out of range">>]

(* ------------------------------ methods ------------------------------- *)
post_graph(graph) ==
    LET data == DictUpdate(json(graph), [owner_email |-> username])
        req == Request("POST", GRAPHS_PATH, Some(data), None)
        response == make_request(req)
    IN  IF response.error # None THEN Raise(<<req>>, GraphSpaceError(response))
        ELSE Return(<<req>>, Some(APIResponse_graph(response.body[1])))

\* Mutant of get_graph: zero matches raise instead of yielding None.
get_graph_raises_on_no_match(name, graph_id, owner_email) ==
    IF graph_id # None THEN
        LET graph_by_id_path == GRAPHS_PATH \o Str(graph_id[1])
            req == Request("GET", graph_by_id_path, None, None)
            response == make_request(req)
        IN  IF response.error # None THEN Raise(<<req>>, GraphSpaceError(response))
            ELSE Return(<<req>>, Some(APIResponse_graph(response.body[1])))
    ELSE IF name # None THEN
        LET query0 == ("owner_email" :> (IF owner_email = None THEN username
                                         ELSE owner_email[1]))
                      @@ ("names[]" :> name[1])
            query == IF owner_email # None /\ owner_email[1] # username
                     THEN DictUpdate(query0, [is_public |-> 1])
                     ELSE query0
            req == Request("GET", GRAPHS_PATH, None, Some(query))
            response == make_request(req)
        IN  IF response.error # None THEN Raise(<<req>>, GraphSpaceError(response))
            ELSE IF Get(response.body[1], "total", 0) > 0
            THEN IF Len(Get(response.body[1], "graphs", <<>>)) = 0
                 THEN Raise(<<req>>, IndexError)
                 ELSE Return(<<req>>,
                             Some(APIResponse_graph(response.body[1]["graphs"][1])))
            ELSE Raise(<<req>>, NotFound(name[1]))
    ELSE Raise(<<>>, InvalidArgument)

\* Mutant of get_graph: is_public is added whenever owner_email is given.
get_graph_always_public(name, graph_id, owner_email) ==
    IF graph_id # None THEN
        LET graph_by_id_path == GRAPHS_PATH \o Str(graph_id[1])
            req == Request("GET", graph_by_id_path, None, None)
            response == make_request(req)
        IN  IF response.error # None THEN Raise(<<req>>, GraphSpaceError(response))
            ELSE Return(<<req>>, Some(APIResponse_graph(response.body[1])))
    ELSE IF name # None THEN
        LET query0 == ("owner_email" :> (IF owner_email = None THEN username
                                         ELSE owner_email[1]))
                      @@ ("names[]" :> name[1])
            query == IF owner_email # None
                     THEN DictUpdate(query0, [is_public |-> 1])
                     ELSE query0
            req == Request("GET", GRAPHS_PATH, None, Some(query))
            response == make_request(req)
        IN  IF response.error # None THEN Raise(<<req>>, GraphSpaceError(response))
            ELSE IF Get(response.body[1], "total", 0) > 0
            THEN IF Len(Get(response.body[1], "graphs", <<>>)) = 0
                 THEN Raise(<<req>>, IndexError)
                 ELSE Return(<<req>>,
                             Some(APIResponse_graph(response.body[1]["graphs"][1])))
            ELSE Return(<<req>>, None)
    ELSE Raise(<<>>, InvalidArgument)

\* Mutant of get_graph: the name is tested before the graph_id.
get_graph_name_first(name, graph_id, owner_email) ==
    IF name # None THEN
        LET query0 == ("owner_email" :> (IF owner_email = None THEN username
                                         ELSE owner_email[1]))
                      @@ ("names[]" :> name[1])
            query == IF owner_email # None /\ owner_email[1] # username
                     THEN DictUpdate(query0, [is_public |-> 1])
                     ELSE query0
            req == Request("GET", GRAPHS_PATH, None, Some(query))
            response == make_request(req)
        IN  IF response.error # None THEN Raise(<<req>>, GraphSpaceError(response))
            ELSE IF Get(response.body[1], "total", 0) > 0
            THEN IF Len(Get(response.body[1], "graphs", <<>>)) = 0
                 THEN Raise(<<req>>, IndexError)
                 ELSE Return(<<req>>,
                             Some(APIResponse_graph(response.body[1]["graphs"][1])))
            ELSE Return(<<req>>, None)
    ELSE IF graph_id # None THEN
        LET graph_by_id_path == GRAPHS_PATH \o Str(graph_id[1])
            req == Request("GET", graph_by_id_path, None, None)
            response == make_request(req)
        IN  IF response.error # None THEN Raise(<<req>>, GraphSpaceError(response))
            ELSE Return(<<req>>, Some(APIResponse_graph(response.body[1])))
    ELSE Raise(<<>>, InvalidArgument)

get_graph(name, graph_id, owner_email) ==
    IF graph_id # None THEN
        LET graph_by_id_path == GRAPHS_PATH \o Str(graph_id[1])
            req == Request("GET", graph_by_id_path, None, None)
            response == make_request(req)
        IN  IF response.error # None THEN Raise(<<req>>, GraphSpaceError(response))
            ELSE Return(<<req>>, Some(APIResponse_graph(response.body[1])))
    ELSE IF name # None THEN
        LET query0 == ("owner_email" :> (IF owner_email = None THEN username
                                         ELSE owner_email[1]))
                      @@ ("names[]" :> name[1])
            query == IF owner_email # None /\ owner_email[1] # username
                     THEN DictUpdate(query0, [is_public |-> 1])
                     ELSE query0
            req == Request("GET", GRAPHS_PATH, None, Some(query))
            response == make_request(req)
        IN  IF response.error # None THEN Raise(<<req>>, GraphSpaceError(response))
            ELSE IF Get(response.body[1], "total", 0) > 0
            THEN IF Len(Get(response.body[1], "graphs", <<>>)) = 0
                 THEN Raise(<<req>>, IndexError)
                 ELSE Return(<<req>>,
                             Some(APIResponse_graph(response.body[1]["graphs"][1])))
            ELSE Return(<<req>>, None)
    ELSE Raise(<<>>, InvalidArgument)

get_public_graphs(tags, limit, offset) ==
    LET query0 == [is_public |-> 1, limit |-> limit, offset |-> offset]
        query == IF tags # None THEN DictUpdate(query0, "tags[]" :> tags[1])
                 ELSE query0
        req == Request("GET", GRAPHS_PATH, None, Some(query))
        response == make_request(req)
    IN  IF response.error # None THEN Raise(<<req>>, GraphSpaceError(response))
        ELSE Return(<<req>>, Some(APIResponse_graphs(response.body[1])))

\* Mutant of get_shared_graphs: limit and offset are swapped in the query.
get_shared_graphs_swapped(tags, limit, offset) ==
    LET query0 == [member_email |-> username, limit |-> offset, offset |-> limit]
        query == IF tags # None THEN DictUpdate(query0, "tags[]" :> tags[1])
                 ELSE query0
        req == Request("GET", GRAPHS_PATH, None, Some(query))
        response == make_request(req)
    IN  IF response.error # None THEN Raise(<<req>>, GraphSpaceError(response))
        ELSE Return(<<req>>, Some(APIResponse_graphs(response.body[1])))

get_shared_graphs(tags, limit, offset) ==
    LET query0 == [member_email |-> username, limit |-> limit, offset |-> offset]
        query == IF tags # None THEN DictUpdate(query0, "tags[]" :> tags[1])
                 ELSE query0
        req == Request("GET", GRAPHS_PATH, None, Some(query))
        response == make_request(req)
    IN  IF response.error # None THEN Raise(<<req>>, GraphSpaceError(response))
        ELSE Return(<<req>>, Some(APIResponse_graphs(response.body[1])))

get_my_graphs(tags, limit, offset) ==
    LET query0 == [owner_email |-> username, limit |-> limit, offset |-> offset]
        query == IF tags # None THEN DictUpdate(query0, "tags[]" :> tags[1])
                 ELSE query0
        req == Request("GET", GRAPHS_PATH, None, Some(query))
        response == make_request(req)
    IN  IF response.error # None THEN Raise(<<req>>, GraphSpaceError(response))
        ELSE Return(<<req>>, Some(APIResponse_graphs(response.body[1])))

\* Mutant of delete_graph: the DELETE is issued although the lookup found nothing.
delete_graph_unchecked(name, graph_id) ==
    IF graph_id # None THEN
        LET graph_by_id_path == GRAPHS_PATH \o Str(graph_id[1])
            req == Request("DELETE", graph_by_id_path, None, None)
            response == make_request(req)
        IN  IF response.error # None THEN Raise(<<req>>, GraphSpaceError(response))
            ELSE Return(<<req>>, Some(response.body[1]["message"]))
    ELSE IF name # None THEN
        LET got == get_graph(name, None, None)
        IN  IF got.kind = "raise" THEN got
            ELSE IF got.value = None \/ got.value[1].id = None
            THEN
                LET req == Request("DELETE", GRAPHS_PATH \o <<"None">>, None, None)
                    response == make_request(req)
                IN  IF response.error # None
                    THEN Raise(got.calls \o <<req>>, GraphSpaceError(response))
                    ELSE Return(got.calls \o <<req>>,
                                Some(response.body[1]["message"]))
            ELSE
                LET graph_by_id_path == GRAPHS_PATH \o Str(got.value[1].id[1])
                    req == Request("DELETE", graph_by_id_path, None, None)
                    response == make_request(req)
                IN  IF response.error # None
                    THEN Raise(got.calls \o <<req>>, GraphSpaceError(response))
                    ELSE Return(got.calls \o <<req>>,
                                Some(response.body[1]["message"]))
    ELSE Raise(<<>>, InvalidArgument)

\* Mutant of delete_graph: a call that gives both graph_id and name is refused.
delete_graph_exactly_one(name, graph_id) ==
    IF graph_id # None /\ name # None THEN Raise(<<>>, InvalidArgument)
    ELSE IF graph_id # None THEN
        LET graph_by_id_path == GRAPHS_PATH \o Str(graph_id[1])
            req == Request("DELETE", graph_by_id_path, None, None)
            response == make_request(req)
        IN  IF response.error # None THEN Raise(<<req>>, GraphSpaceError(response))
            ELSE Return(<<req>>, Some(response.body[1]["message"]))
    ELSE IF name # None THEN
        LET got == get_graph(name, None, None)
        IN  IF got.kind = "raise" THEN got
            ELSE IF got.value = None \/ got.value[1].id = None
            THEN Raise(got.calls, NotFound(name[1]))
            ELSE
                LET graph_by_id_path == GRAPHS_PATH \o Str(got.value[1].id[1])
                    req == Request("DELETE", graph_by_id_path, None, None)
                    response == make_request(req)
                IN  IF response.error # None
                    THEN Raise(got.calls \o <<req>>, GraphSpaceError(response))
                    ELSE Return(got.calls \o <<req>>,
                                Some(response.body[1]["message"]))
    ELSE Raise(<<>>, InvalidArgument)

delete_graph(name, graph_id) ==
    IF graph_id # None THEN
        LET graph_by_id_path == GRAPHS_PATH \o Str(graph_id[1])
            req == Request("DELETE", graph_by_id_path, None, None)
            response == make_request(req)
        IN  IF response.error # None THEN Raise(<<req>>, GraphSpaceError(response))
            ELSE Return(<<req>>, Some(response.body[1]["message"]))
    ELSE IF name # None THEN
        LET got == get_graph(name, None, None)
        IN  IF got.kind = "raise" THEN got
            ELSE IF got.value = None \/ got.value[1].id = None
            THEN Raise(got.calls, NotFound(name[1]))
            ELSE
                LET graph_by_id_path == GRAPHS_PATH \o Str(got.value[1].id[1])
                    req == Request("DELETE", graph_by_id_path, None, None)
                    response == make_request(req)
                IN  IF response.error # None
                    THEN Raise(got.calls \o <<req>>, GraphSpaceError(response))
                    ELSE Return(got.calls \o <<req>>,
                                Some(response.body[1]["message"]))
    ELSE Raise(<<>>, InvalidArgument)

\* Mutant of update_graph: a failed PUT by id is sent a second time.
update_graph_retry(graph, name, graph_id, owner_email) ==
    IF graph_id # None THEN
        LET graph_by_id_path == GRAPHS_PATH \o Str(graph_id[1])
            req == Request("PUT", graph_by_id_path, Some(json(graph)), None)
            response == make_request(req)
        IN  IF response.error # None
            THEN Raise(<<req, req>>, GraphSpaceError(make_request(req)))
            ELSE Return(<<req>>, Some(APIResponse_graph(response.body[1])))
    ELSE IF name # None THEN
        LET got == get_graph(name, None, owner_email)
        IN  IF got.kind = "raise" THEN got
            ELSE IF got.value = None \/ got.value[1].id = None
            THEN Raise(got.calls, NotFound(name[1]))
            ELSE
                LET graph_by_id_path == GRAPHS_PATH \o Str(got.value[1].id[1])
                    req == Request("PUT", graph_by_id_path, Some(json(graph)), None)
                    response == make_request(req)
                IN  IF response.error # None
                    THEN Raise(got.calls \o <<req>>, GraphSpaceError(response))
                    ELSE Return(got.calls \o <<req>>,
                                Some(APIResponse_graph(response.body[1])))
    ELSE Raise(<<>>, InvalidArgument)

\* Mutant of update_graph: a failed lookup is taken for a graph that does not exist.
update_graph_swallow(graph, name, graph_id, owner_email) ==
    IF graph_id # None THEN
        LET graph_by_id_path == GRAPHS_PATH \o Str(graph_id[1])
            req == Request("PUT", graph_by_id_path, Some(json(graph)), None)
            response == make_request(req)
        IN  IF response.error # None THEN Raise(<<req>>, GraphSpaceError(response))
            ELSE Return(<<req>>, Some(APIResponse_graph(response.body[1])))
    ELSE IF name # None THEN
        LET got == get_graph(name, None, owner_email)
        IN  IF got.kind = "raise" THEN Raise(got.calls, NotFound(name[1]))
            ELSE IF got.value = None \/ got.value[1].id = None
            THEN Raise(got.calls, NotFound(name[1]))
            ELSE
                LET graph_by_id_path == GRAPHS_PATH \o Str(got.value[1].id[1])
                    req == Request("PUT", graph_by_id_path, Some(json(graph)), None)
                    response == make_request(req)
                IN  IF response.error # None
                    THEN Raise(got.calls \o <<req>>, GraphSpaceError(response))
                    ELSE Return(got.calls \o <<req>>,
                                Some(APIResponse_graph(response.body[1])))
    ELSE Raise(<<>>, InvalidArgument)

update_graph(graph, name, graph_id, owner_email) ==
    IF graph_id # None THEN
        LET graph_by_id_path == GRAPHS_PATH \o Str(graph_id[1])
            req == Request("PUT", graph_by_id_path, Some(json(graph)), None)
            response == make_request(req)
        IN  IF response.error # None THEN Raise(<<req>>, GraphSpaceError(response))
            ELSE Return(<<req>>, Some(APIResponse_graph(response.body[1])))
    ELSE IF name # None THEN
        LET got == get_graph(name, None, owner_email)
        IN  IF got.kind = "raise" THEN got
            ELSE IF got.value = None \/ got.value[1].id = None
            THEN Raise(got.calls, NotFound(name[1]))
            ELSE
                LET graph_by_id_path == GRAPHS_PATH \o Str(got.value[1].id[1])
                    req == Request("PUT", graph_by_id_path, Some(json(graph)), None)
                    response == make_request(req)
                IN  IF response.error # None
                    THEN Raise(got.calls \o <<req>>, GraphSpaceError(response))
                    ELSE Return(got.calls \o <<req>>,
                                Some(APIResponse_graph(response.body[1])))
    ELSE Raise(<<>>, InvalidArgument)

\* Mutant of make_graph_public: the name branch sends the payload of make_graph_private.
make_graph_public_pasted(name, graph_id) ==
    IF graph_id # None THEN
        LET graph_by_id_path == GRAPHS_PATH \o Str(graph_id[1])
            req == Request("PUT", graph_by_id_path, Some([is_public |-> 1]), None)
            response == make_request(req)
        IN  IF response.error # None THEN Raise(<<req>>, GraphSpaceError(response))
            ELSE Return(<<req>>, Some(APIResponse_graph(response.body[1])))
    ELSE IF name # None THEN
        LET got == get_graph(name, None, None)
        IN  IF got.kind = "raise" THEN got
            ELSE IF got.value = None \/ got.value[1].id = None
            THEN Raise(got.calls, NotFound(name[1]))
            ELSE
                LET graph_by_id_path == GRAPHS_PATH \o Str(got.value[1].id[1])
                    req == Request("PUT", graph_by_id_path,
                                   Some([is_public |-> 0]), None)
                    response == make_request(req)
                IN  IF response.error # None
                    THEN Raise(got.calls \o <<req>>, GraphSpaceError(response))
                    ELSE Return(got.calls \o <<req>>,
                                Some(APIResponse_graph(response.body[1])))
    ELSE Raise(<<>>, InvalidArgument)

make_graph_public(name, graph_id) ==
    IF graph_id # None THEN
        LET graph_by_id_path == GRAPHS_PATH \o Str(graph_id[1])
            req == Request("PUT", graph_by_id_path, Some([is_public |-> 1]), None)
            response == make_request(req)
        IN  IF response.error # None THEN Raise(<<req>>, GraphSpaceError(response))
            ELSE Return(<<req>>, Some(APIResponse_graph(response.body[1])))
    ELSE IF name # None THEN
        LET got == get_graph(name, None, None)
        IN  IF got.kind = "raise" THEN got
            ELSE IF got.value = None \/ got.value[1].id = None
            THEN Raise(got.calls, NotFound(name[1]))
            ELSE
                LET graph_by_id_path == GRAPHS_PATH \o Str(got.value[1].id[1])
                    req == Request("PUT", graph_by_id_path,
                                   Some([is_public |-> 1]), None)
                    response == make_request(req)
                IN  IF response.error # None
                    THEN Raise(got.calls \o <<req>>, GraphSpaceError(response))
                    ELSE Return(got.calls \o <<req>>,
                                Some(APIResponse_graph(response.body[1])))
    ELSE Raise(<<>>, InvalidArgument)

\* Mutant of make_graph_private: the final raise is missing, so None is returned.
make_graph_private_no_raise(name, graph_id) ==
    IF graph_id # None THEN
        LET graph_by_id_path == GRAPHS_PATH \o Str(graph_id[1])
            req == Request("PUT", graph_by_id_path, Some([is_public |-> 0]), None)
            response == make_request(req)
        IN  IF response.error # None THEN Raise(<<req>>, GraphSpaceError(response))
            ELSE Return(<<req>>, Some(APIResponse_graph(response.body[1])))
    ELSE IF name # None THEN
        LET got == get_graph(name, None, None)
        IN  IF got.kind = "raise" THEN got
            ELSE IF got.value = None \/ got.value[1].id = None
            THEN Raise(got.calls, NotFound(name[1]))
            ELSE
                LET graph_by_id_path == GRAPHS_PATH \o Str(got.value[1].id[1])
                    req == Request("PUT", graph_by_id_path,
                                   Some([is_public |-> 0]), None)
                    response == make_request(req)
                IN  IF response.error # None
                    THEN Raise(got.calls \o <<req>>, GraphSpaceError(response))
                    ELSE Return(got.calls \o <<req>>,
                                Some(APIResponse_graph(response.body[1])))
    ELSE Return(<<>>, None)

make_graph_private(name, graph_id) ==
    IF graph_id # None THEN
        LET graph_by_id_path == GRAPHS_PATH \o Str(graph_id[1])
            req == Request("PUT", graph_by_id_path, Some([is_public |-> 0]), None)
            response == make_request(req)
        IN  IF response.error # None THEN Raise(<<req>>, GraphSpaceError(response))
            ELSE Return(<<req>>, Some(APIResponse_graph(response.body[1])))
    ELSE IF name # None THEN
        LET got == get_graph(name, None, None)
        IN  IF got.kind = "raise" THEN got
            ELSE IF got.value = None \/ got.value[1].id = None
            THEN Raise(got.calls, NotFound(name[1]))
            ELSE
                LET graph_by_id_path == GRAPHS_PATH \o Str(got.value[1].id[1])
                    req == Request("PUT", graph_by_id_path,
                                   Some([is_public |-> 0]), None)
                    response == make_request(req)
                IN  IF response.error # None
                    THEN Raise(got.calls \o <<req>>, GraphSpaceError(response))
                    ELSE Return(got.calls \o <<req>>,
                                Some(APIResponse_graph(response.body[1])))
    ELSE Raise(<<>>, InvalidArgument)

(* ------------------------------ actions ------------------------------- *)
NoArgs == [name |-> None, graph_id |-> None, owner_email |-> None,
           graph |-> None, tags |-> None, limit |-> None, offset |-> None]

Finish(o, a, r) ==
    /\ pc = "idle"
    /\ pc' = "done"
    /\ op' = o
    /\ args' = a
    /\ calls' = r.calls
    /\ outcome' = [kind |-> r.kind, value |-> r.value]
    /\ UNCHANGED <<username, backend>>

PostGraph ==
    \E graph \in GraphArgs :
        Finish("post_graph", [NoArgs EXCEPT !.graph = Some(graph)], post_graph(graph))

GetGraph ==
    \E name \in Opt(Names), graph_id \in Opt(Ids), owner_email \in Opt(Emails) :
        Finish("get_graph",
               [NoArgs EXCEPT !.name = name, !.graph_id = graph_id,
                              !.owner_email = owner_email],
               get_graph(name, graph_id, owner_email))

GetPublicGraphs ==
    \E tags \in TagArgs, limit \in 0..MaxLimit, offset \in 0..MaxOffset :
        Finish("get_public_graphs",
               [NoArgs EXCEPT !.tags = tags, !.limit = Some(limit),
                              !.offset = Some(offset)],
               get_public_graphs(tags, limit, offset))

GetSharedGraphs ==
    \E tags \in TagArgs, limit \in 0..MaxLimit, offset \in 0..MaxOffset :
        Finish("get_shared_graphs",
               [NoArgs EXCEPT !.tags = tags, !.limit = Some(limit),
                              !.offset = Some(offset)],
               get_shared_graphs(tags, limit, offset))

GetMyGraphs ==
    \E tags \in TagArgs, limit \in 0..MaxLimit, offset \in 0..MaxOffset :
        Finish("get_my_graphs",
               [NoArgs EXCEPT !.tags = tags, !.limit = Some(limit),
                              !.offset = Some(offset)],
               get_my_graphs(tags, limit, offset))

DeleteGraph ==
    \E name \in Opt(Names), graph_id \in Opt(Ids) :
        Finish("delete_graph",
               [NoArgs EXCEPT !.name = name, !.graph_id = graph_id],
               delete_graph(name, graph_id))

UpdateGraph ==
    \E graph \in GraphArgs, name \in Opt(Names), graph_id \in Opt(Ids),
       owner_email \in Opt(Emails) :
        Finish("update_graph",
               [NoArgs EXCEPT !.graph = Some(graph), !.name = name,
                              !.graph_id = graph_id, !.owner_email = owner_email],
               update_graph(graph, name, graph_id, owner_email))

MakeGraphPublic ==
    \E name \in Opt(Names), graph_id \in Opt(Ids) :
        Finish("make_graph_public",
               [NoArgs EXCEPT !.name = name, !.graph_id = graph_id],
               make_graph_public(name, graph_id))

MakeGraphPrivate ==
    \E name \in Opt(Names), graph_id \in Opt(Ids) :
        Finish("make_graph_private",
               [NoArgs EXCEPT !.name = name, !.graph_id = graph_id],
               make_graph_private(name, graph_id))

Init ==
    /\ username \in Emails
    /\ backend \in {b \in [list : ListResponses, item : ItemResponses,
                           delete : DeleteResponses] : WellFormed(b.list)}
    /\ pc = "idle"
    /\ op = "none"
    /\ args = NoArgs
    /\ calls = <<>>
    /\ outcome = [kind |-> "none", value |-> None]

Next ==
    \/ PostGraph
    \/ GetGraph
    \/ GetPublicGraphs
    \/ GetSharedGraphs
    \/ GetMyGraphs
    \/ DeleteGraph
    \/ UpdateGraph
    \/ MakeGraphPublic
    \/ MakeGraphPrivate

Spec == Init /\ [][Next]_vars

(* ------------------------- vocabulary of the claims ------------------- *)
IdentOps == {"get_graph", "delete_graph", "update_graph",
             "make_graph_public", "make_graph_private"}

ResolvingOps == {"delete_graph", "update_graph",
                 "make_graph_public", "make_graph_private"}

ListOps == {"get_my_graphs", "get_shared_graphs", "get_public_graphs"}

Done(o) == pc = "done" /\ op = o

ByName == args.graph_id = None /\ args.name # None

NoIdent == args.graph_id = None /\ args.name = None

Raised(e) == outcome.kind = "raise" /\ outcome.value = e

Returned(v) == outcome.kind = "return" /\ outcome.value = v

IsLookup(req) == req.method = "GET" /\ req.path = GRAPHS_PATH

Mutating(req) == req.method \in {"PUT", "DELETE"}

CountCalls(P(_)) == Cardinality({i \in 1..Len(calls) : P(calls[i])})

IsDelete(req) == req.method = "DELETE"

\* The answer of the service to a lookup on the collection path.
LookupOk == backend.list.error = None

LookupTotal == Get(backend.list.body[1], "total", 0)

LookupGraphs == backend.list.body[1]["graphs"]

LookupAbsent == LookupOk /\ LookupTotal = 0

LookupMatch == LookupOk /\ LookupTotal > 0 /\ Len(LookupGraphs) > 0

LookupMatchWithId == LookupMatch /\ "id" \in DOMAIN LookupGraphs[1]

AllCallsSucceeded == \A i \in 1..Len(calls) : make_request(calls[i]).error = None

NoRepeatedCall == \A i, j \in 1..Len(calls) : i # j => calls[i] # calls[j]

Contains(pieces, x) == \E i \in 1..Len(pieces) : pieces[i] = x

\* The method named o applied to the arguments a.
Apply(o, a) ==
    CASE o = "get_graph" -> get_graph(a.name, a.graph_id, a.owner_email)
      [] o = "delete_graph" -> delete_graph(a.name, a.graph_id)
      [] o = "update_graph" ->
            update_graph(a.graph[1], a.name, a.graph_id, a.owner_email)
      [] o = "make_graph_public" -> make_graph_public(a.name, a.graph_id)
      [] o = "make_graph_private" -> make_graph_private(a.name, a.graph_id)

(* -------------------------------- C1 ---------------------------------- *)
\* C1: get_graph, delete_graph, update_graph, make_graph_public and
\* make_graph_private, called with graph_id and name both None, raise the
\* exception 'Both graph_id and name can't be none!' and issue no transport
\* call.
C1_NoIdentFailsFast ==
    (pc = "done" /\ op \in IdentOps /\ NoIdent)
        => Raised(InvalidArgument) /\ Len(calls) = 0

C1_Witness ==
    /\ Done("update_graph") /\ NoIdent
    /\ Raised(InvalidArgument) /\ calls = <<>>

(* -------------------------------- C2 ---------------------------------- *)
\* C2 as stated: when every call succeeds and the lookup finds a match, an
\* operation issues two calls if it is a name-based delete, update or fetch
\* and one call otherwise; never more than two calls, none repeated.
C2_Original ==
    (/\ pc = "done"
     /\ op \in IdentOps => ~NoIdent
     /\ AllCallsSucceeded
     /\ (op \in IdentOps /\ ByName) => LookupMatchWithId)
        => /\ Len(calls) = IF ByName /\ op \in {"delete_graph", "update_graph",
                                                "get_graph"}
                           THEN 2 ELSE 1
           /\ Len(calls) <= 2
           /\ NoRepeatedCall

\* C2 (amended): when an identifier is supplied, every call succeeds and the
\* lookup finds a match that carries an id, an operation issues two calls (the
\* lookup, then the mutating request) if it is a name-based delete_graph,
\* update_graph, make_graph_public or make_graph_private, and exactly one call
\* otherwise, name-based get_graph included; no operation ever issues more
\* than two calls and no call is issued twice.
C2_CallCount ==
    /\ (/\ pc = "done"
        /\ op \in IdentOps => ~NoIdent
        /\ AllCallsSucceeded
        /\ (op \in IdentOps /\ ByName) => LookupMatchWithId)
           => Len(calls) = IF ByName /\ op \in ResolvingOps THEN 2 ELSE 1
    /\ Len(calls) <= 2
    /\ NoRepeatedCall
    /\ (Len(calls) = 2 => IsLookup(calls[1]) /\ Mutating(calls[2]))

C2_Witness ==
    /\ Done("make_graph_public") /\ ByName /\ LookupMatchWithId
    /\ AllCallsSucceeded /\ Len(calls) = 2 /\ outcome.kind = "return"

(* -------------------------------- C3 ---------------------------------- *)
\* C3: delete_graph by name raises the 'doesnt exist' exception, whose message
\* holds the name and client.username, and issues no DELETE when the lookup
\* finds nothing; when the lookup yields a graph with an id it issues exactly
\* one DELETE, to GRAPHS_PATH + str(id), and returns the 'message' of the
\* answer.
C3_DeleteByName ==
    (Done("delete_graph") /\ ByName) =>
        /\ LookupAbsent =>
            /\ outcome.kind = "raise"
            /\ outcome.value.type = "Exception"
            /\ Contains(outcome.value.args, args.name[1])
            /\ Contains(outcome.value.args, username)
            /\ CountCalls(IsDelete) = 0
        /\ LookupMatchWithId =>
            /\ CountCalls(IsDelete) = 1
            /\ Len(calls) = 2
            /\ calls[2] = Request("DELETE",
                                  GRAPHS_PATH \o Str(LookupGraphs[1]["id"]),
                                  None, None)
            /\ backend.delete.error = None =>
                   Returned(Some(backend.delete.body[1]["message"]))

C3_Witness ==
    /\ Done("delete_graph") /\ ByName /\ LookupAbsent
    /\ outcome.kind = "raise" /\ Len(calls) = 1

C5_LookupQuery ==
    (Done("get_graph") /\ ByName) =>
        /\ Len(calls) = 1
        /\ calls[1].method = "GET"
        /\ calls[1].path = GRAPHS_PATH
        /\ calls[1].url_params # None
        /\ LET query == calls[1].url_params[1]
               differs == args.owner_email # None /\ args.owner_email[1] # username
           IN  /\ DOMAIN query = {"names[]", "owner_email"}
                                 \cup (IF differs THEN {"is_public"} ELSE {})
               /\ query["names[]"] = args.name[1]
               /\ query["owner_email"] = IF args.owner_email = None THEN username
                                         ELSE args.owner_email[1]
               /\ differs => query["is_public"] = 1

C5_Witness ==
    /\ Done("get_graph") /\ ByName
    /\ args.owner_email # None /\ args.owner_email[1] # username
    /\ Len(calls) = 1 /\ "is_public" \in DOMAIN calls[1].url_params[1]

(* -------------------------------- C6 ---------------------------------- *)
\* C6: make_graph_public (make_graph_private) issues the same transport calls
\* and ends with the same result or exception as update_graph called with the
\* same graph_id and name and a graph whose json() is {is_public: 1}
\* ({is_public: 0}).
C6_VisibilityIsUpdate ==
    \A g \in GraphArgs :
        /\ (Done("make_graph_public") /\ json(g) = [is_public |-> 1]) =>
              LET u == update_graph(g, args.name, args.graph_id, None)
              IN  calls = u.calls /\ outcome.kind = u.kind /\ outcome.value = u.value
        /\ (Done("make_graph_private") /\ json(g) = [is_public |-> 0]) =>
              LET u == update_graph(g, args.name, args.graph_id, None)
              IN  calls = u.calls /\ outcome.kind = u.kind /\ outcome.value = u.value

C6_Witness ==
    /\ Done("make_graph_private") /\ ByName /\ Len(calls) = 2
    /\ calls[2].data = Some([is_public |-> 0]) /\ outcome.kind = "return"

(* -------------------------------- C7 ---------------------------------- *)
\* C7 as stated: delete_graph called with neither graph_id nor name, or with
\* both, raises the 'Both graph_id and name can't be none!' exception and
\* issues no DELETE.
C7_Original ==
    (Done("delete_graph") /\ (NoIdent \/ (args.graph_id # None /\ args.name # None)))
        => Raised(InvalidArgument) /\ CountCalls(IsDelete) = 0

\* C7 (amended): delete_graph requires at least one of graph_id and name:
\* called with neither it raises 'Both graph_id and name can't be none!' and
\* issues no request; called with both it raises no such exception, ignores the
\* name and issues exactly one request, the DELETE of GRAPHS_PATH +
\* str(graph_id).
C7_DeletePrecondition ==
    Done("delete_graph") =>
        /\ NoIdent => Raised(InvalidArgument) /\ Len(calls) = 0
        /\ (args.graph_id # None /\ args.name # None) =>
            /\ calls = <<Request("DELETE", GRAPHS_PATH \o Str(args.graph_id[1]),
                                 None, None)>>
            /\ ~Raised(InvalidArgument)

C7_Witness ==
    /\ Done("delete_graph") /\ args.graph_id # None /\ args.name # None
    /\ Len(calls) = 1 /\ outcome.kind = "return"

(* -------------------------------- C8 ---------------------------------- *)
\* C8: with a graph_id, the name is ignored: get_graph, delete_graph,
\* update_graph, make_graph_public and make_graph_private issue the same calls
\* and end the same way whatever the name (None included), and issue no lookup
\* GET on the collection path.
C8_IdTakesPrecedence ==
    (pc = "done" /\ op \in IdentOps /\ args.graph_id # None) =>
        /\ \A n \in Opt(Names) :
              LET r == Apply(op, [args EXCEPT !.name = n])
              IN  calls = r.calls /\ outcome.kind = r.kind /\ outcome.value = r.value
        /\ CountCalls(IsLookup) = 0
        /\ Len(calls) = 1
        /\ calls[1].path = GRAPHS_PATH \o Str(args.graph_id[1])

C8_Witness ==
    /\ Done("update_graph") /\ args.graph_id # None /\ args.name # None
    /\ Len(calls) = 1 /\ calls[1].method = "PUT"

(* -------------------------------- C9 ---------------------------------- *)
\* C9 as stated: a list operation called with a limit returns at most limit
\* entries, whatever the transport answers.
C9_Original ==
    (pc = "done" /\ op \in ListOps /\ outcome.kind = "return")
        => Len(outcome.value[1]) <= args.limit[1]

\* C9 (amended): a list operation issues one GET on GRAPHS_PATH whose query
\* carries the given limit and offset unchanged, and returns exactly the
\* entries of the list 'graphs' of the answer, in their order: never more than
\* limit entries when the answer holds at most limit entries.
C9_ListPassesLimit ==
    (pc = "done" /\ op \in ListOps) =>
        /\ Len(calls) = 1
        /\ IsLookup(calls[1])
        /\ calls[1].url_params[1]["limit"] = args.limit[1]
        /\ calls[1].url_params[1]["offset"] = args.offset[1]
        /\ LookupOk =>
            /\ outcome.kind = "return"
            /\ Len(outcome.value[1]) = Len(LookupGraphs)
            /\ \A i \in 1..Len(LookupGraphs) :
                   json(outcome.value[1][i]) = LookupGraphs[i]
            /\ Len(LookupGraphs) <= args.limit[1]
                   => Len(outcome.value[1]) <= args.limit[1]

C9_Witness ==
    /\ Done("get_shared_graphs") /\ outcome.kind = "return"
    /\ args.limit = Some(1) /\ args.offset = Some(1)
    /\ Len(outcome.value[1]) = 1

(* -------------------------------- C10 --------------------------------- *)
\* C10: in a name-based delete_graph, update_graph, make_graph_public or
\* make_graph_private, a lookup that raises GraphSpaceError ends the operation
\* with that error and no DELETE or PUT is issued; a DELETE or PUT that raises
\* GraphSpaceError ends the operation with that error and is the last call.
C10_ErrorsPropagate ==
    (pc = "done" /\ op \in ResolvingOps) =>
        /\ (ByName /\ ~LookupOk) =>
            /\ Raised(GraphSpaceError(backend.list))
            /\ Len(calls) = 1
            /\ CountCalls(Mutating) = 0
        /\ \A i \in 1..Len(calls) :
              (Mutating(calls[i]) /\ make_request(calls[i]).error # None) =>
                  /\ Raised(GraphSpaceError(make_request(calls[i])))
                  /\ i = Len(calls)

C10_Witness ==
    /\ Done("delete_graph") /\ ByName /\ ~LookupOk
    /\ Raised(GraphSpaceError(backend.list)) /\ Len(calls) = 1

====
